---- MODULE Spec2Model ----
(***************************************************************************)
(* vite-plugin-content-security-policy: the policy resolution and          *)
(* compilation engine (origin resolver, nonce substitution, directive      *)
(* compilers), the CSP proxy plugin that serves the compiled policy as a   *)
(* response header, and the plugin that generates the Nginx / Apache       *)
(* configuration files.                                                    *)
(*                                                                         *)
(* Strings are TLA+ strings; includes / replace / join are computed on     *)
(* their characters.  A rule set (a JavaScript object, iterated in         *)
(* insertion order by Object.entries) is a sequence of entries             *)
(* [directive, value] with pairwise distinct directives.  An origin value  *)
(* is [type |-> "string", value |-> s] or                                  *)
(* [type |-> "object", entries |-> m], m a function from property names    *)
(* to strings.                                                             *)
(***************************************************************************)
EXTENDS Integers, Sequences, FiniteSets, TLC

VARIABLES
    call,                 \* the function call under test: its arguments and its result
    rules,                \* cspProxyPlugin options.rules
    noncesConfiguration,  \* cspProxyPlugin options.noncesConfiguration, or NoObject
    reportType,           \* cspProxyPlugin options.reportType, or Undefined
    nonce,                \* the nonce generated when the plugin is created
    html,                 \* server.config.html: NoObject, or [cspNonce |-> ...]
    installed,            \* whether configureServer has installed the middleware
    errors,               \* number of console.error calls at configureServer
    responses,            \* the responses of the requests served so far, in order
    environments,         \* cspConfigurationFileGenerationPlugin options.environments, in iteration order
    cspConfigurationFilePath, \* options.cspConfigurationFilePath, or Undefined
    watching,             \* whether handleOnChange is registered on server.watcher
    passes,               \* the generateFiles() calls started so far, in start order
    changes,              \* the 'change' events the watcher has emitted, in order
    directories,          \* the directories that exist on disk
    files                 \* the files on disk: path -> content

vars == <<call, rules, noncesConfiguration, reportType, nonce, html, installed,
          errors, responses, environments, cspConfigurationFilePath, watching, passes,
          changes, directories, files>>

generationVars == <<environments, cspConfigurationFilePath, watching, passes, changes,
                    directories, files>>

proxyVars == <<rules, noncesConfiguration, reportType, nonce, html, installed,
               errors, responses>>

(***************************************************************************)
(* Bounds of the model.                                                    *)
(***************************************************************************)
MaxRules == 2

MaxProxyRules == 1

MaxRequests == 2

\* Change events emitted by the watcher.
MaxChanges == 2

\* mkdir / writeFile calls that fail.
MaxFailures == 1

(***************************************************************************)
(* JavaScript values.                                                      *)
(***************************************************************************)
\* The value `undefined` (an absent optional argument, a missing property).
Undefined == "<undefined>"

\* A property access o[k] converts the key to a string: o[undefined] reads
\* the property named "undefined".
PropertyKey(k) == IF k = Undefined THEN "undefined" ELSE k

\* o[k] on an object without prototype properties of that name.
Get(entries, k) ==
    IF PropertyKey(k) \in DOMAIN entries THEN entries[PropertyKey(k)] ELSE Undefined

\* Truthiness of a string-or-undefined value (x && ...).
Truthy(x) == x # Undefined /\ x # ""

\* `${x}` in a template literal.
TemplateString(x) == IF x = Undefined THEN "undefined" ELSE x

RECURSIVE IndexFrom(_, _, _)
\* The first position at or after i where t occurs in s; 0 when there is none.
IndexFrom(s, t, i) ==
    IF i + Len(t) - 1 > Len(s) THEN 0
    ELSE IF SubSeq(s, i, i + Len(t) - 1) = t THEN i
    ELSE IndexFrom(s, t, i + 1)

\* String.prototype.indexOf, 1-based; 0 when t does not occur in s.
IndexOf(s, t) == IndexFrom(s, t, 1)

\* String.prototype.includes
Includes(s, t) == IndexOf(s, t) # 0

\* String.prototype.replace with a string pattern: the first occurrence only.
\* (The replacement holds no `$`: the nonce is base64 text.)
StringReplace(s, pattern, replacement) ==
    LET i == IndexOf(s, pattern)
    IN  IF i = 0 THEN s
        ELSE SubSeq(s, 1, i - 1) \o replacement \o SubSeq(s, i + Len(pattern), Len(s))

RECURSIVE Join(_, _)
\* Array.prototype.join
Join(parts, separator) ==
    IF Len(parts) = 0 THEN ""
    ELSE IF Len(parts) = 1 THEN parts[1]
    ELSE parts[1] \o separator \o Join(Tail(parts), separator)

\* An optional object that is not given (undefined).
NoObject == <<>>

\* !!o for an optional object.
IsGiven(o) == DOMAIN o # {}

Str(s) == [type |-> "string", value |-> s]

Obj(m) == [type |-> "object", entries |-> m]

(***************************************************************************)
(* lib/csp/ComputeOriginForEnvironment.ts                                  *)
(***************************************************************************)
\* A slip: `||` for `??`, so an empty environment entry falls back to default.
computeOriginForEnvironment_Or(origine, environment) ==
    IF origine.type = "string" THEN origine.value
    ELSE IF Truthy(Get(origine.entries, environment))
         THEN Get(origine.entries, environment)
         ELSE Get(origine.entries, "default")

\* A slip: the string branch taken only when no environment is given.
computeOriginForEnvironment_NoTypeof(origine, environment) ==
    IF origine.type = "string" /\ environment = Undefined THEN origine.value
    ELSE IF origine.type = "string" THEN Undefined
    ELSE IF Get(origine.entries, environment) # Undefined
         THEN Get(origine.entries, environment)
         ELSE Get(origine.entries, "default")

computeOriginForEnvironment(origine, environment) ==
    IF origine.type = "string" THEN origine.value
    ELSE IF Get(origine.entries, environment) # Undefined
         THEN Get(origine.entries, environment)
         ELSE Get(origine.entries, "default")

\* The clause of one entry: `${directive} ${allowedOrigin}`.
CspClause(entry, environment) ==
    entry.directive \o " "
        \o TemplateString(computeOriginForEnvironment(entry.value, environment))

\* A slip: join(';') for join('; ').
computeCspDirectiveForEnvironment_NoSpace(policies, environment) ==
    Join([i \in 1..Len(policies) |-> CspClause(policies[i], environment)], ";")

\* A slip: the entries taken last to first.
computeCspDirectiveForEnvironment_Reversed(policies, environment) ==
    Join([i \in 1..Len(policies) |->
            CspClause(policies[Len(policies) + 1 - i], environment)], "; ")

computeCspDirectiveForEnvironment(policies, environment) ==
    Join([i \in 1..Len(policies) |-> CspClause(policies[i], environment)], "; ")

(***************************************************************************)
(* lib/csp-proxy/CspProxy.ts                                               *)
(***************************************************************************)
replaceNoncePlaceholder(initialValue, placeholder, nonceValue) ==
    StringReplace(initialValue, placeholder, nonceValue)

\* The step of the reduce: `${rules}${directive} ${allowedOrigin}; `.
DevelopmentClause(entry, developmentKey) ==
    entry.directive \o " "
        \o TemplateString(computeOriginForEnvironment(entry.value, developmentKey))
        \o "; "

RECURSIVE Reduce(_, _, _)
\* Array.prototype.reduce over the entries, appending one clause per entry.
Reduce(entries, developmentKey, acc) ==
    IF Len(entries) = 0 THEN acc
    ELSE Reduce(Tail(entries), developmentKey,
                acc \o DevelopmentClause(Head(entries), developmentKey))

\* A slip: an entry whose resolved origin is empty is left out.
computeDirectivesForDevelopmentEnvironment_SkipEmpty(policies, developmentKey) ==
    Reduce(SelectSeq(policies,
                     LAMBDA e : Truthy(computeOriginForEnvironment(e.value, developmentKey))),
           developmentKey, "")

computeDirectivesForDevelopmentEnvironment(policies, developmentKey) ==
    Reduce(policies, developmentKey, "")

\* `'nonce-${noncePlaceholder}'`
NonceToReplace(noncePlaceholder) == "'nonce-" \o noncePlaceholder \o "'"

\* A variant: the developmentKey check and the default check both applied.
RuleWithNonce_BothChecks(entry, nonceValue, noncePlaceholder, developmentKey) ==
    LET value == entry.value
        nonceToReplace == NonceToReplace(noncePlaceholder)
        afterDevelopment ==
            IF /\ Truthy(developmentKey)
               /\ Truthy(Get(value.entries, developmentKey))
               /\ Includes(Get(value.entries, developmentKey), nonceToReplace)
            THEN [value.entries EXCEPT ![developmentKey] =
                    StringReplace(@, noncePlaceholder, nonceValue)]
            ELSE value.entries
        afterDefault ==
            IF /\ Truthy(Get(afterDevelopment, "default"))
               /\ Includes(Get(afterDevelopment, "default"), nonceToReplace)
            THEN [afterDevelopment EXCEPT !["default"] =
                    StringReplace(@, noncePlaceholder, nonceValue)]
            ELSE afterDevelopment
    IN  IF value.type = "string"
        THEN IF Includes(value.value, nonceToReplace)
             THEN [directive |-> entry.directive,
                   value |-> Str(StringReplace(value.value, noncePlaceholder, nonceValue))]
             ELSE entry
        ELSE [directive |-> entry.directive, value |-> Obj(afterDefault)]

\* The callback of the map in computeRulesWithNonce: the first branch whose
\* condition holds returns.
\* A slip: values matched on the bare placeholder, not on 'nonce-<placeholder>'.
RuleWithNonce_BarePlaceholder(entry, nonceValue, noncePlaceholder, developmentKey) ==
    LET value == entry.value
    IN  IF value.type = "string" /\ Includes(value.value, noncePlaceholder)
        THEN [directive |-> entry.directive,
              value |-> Str(replaceNoncePlaceholder(value.value, noncePlaceholder, nonceValue))]
        ELSE IF /\ value.type = "object"
                /\ Truthy(developmentKey)
                /\ Truthy(Get(value.entries, developmentKey))
                /\ Includes(Get(value.entries, developmentKey), noncePlaceholder)
        THEN [directive |-> entry.directive,
              value |-> Obj([value.entries EXCEPT ![developmentKey] =
                    replaceNoncePlaceholder(@, noncePlaceholder, nonceValue)])]
        ELSE IF /\ value.type = "object"
                /\ Truthy(Get(value.entries, "default"))
                /\ Includes(Get(value.entries, "default"), noncePlaceholder)
        THEN [directive |-> entry.directive,
              value |-> Obj([value.entries EXCEPT !["default"] =
                    replaceNoncePlaceholder(@, noncePlaceholder, nonceValue)])]
        ELSE entry

RuleWithNonce(entry, nonceValue, noncePlaceholder, developmentKey) ==
    LET value == entry.value
        nonceToReplace == NonceToReplace(noncePlaceholder)
    IN  IF value.type = "string" /\ Includes(value.value, nonceToReplace)
        THEN [directive |-> entry.directive,
              value |-> Str(replaceNoncePlaceholder(value.value, noncePlaceholder, nonceValue))]
        ELSE IF /\ value.type = "object"
                /\ Truthy(developmentKey)
                /\ Truthy(Get(value.entries, developmentKey))
                /\ Includes(Get(value.entries, developmentKey), nonceToReplace)
        THEN [directive |-> entry.directive,
              value |-> Obj([value.entries EXCEPT ![developmentKey] =
                    replaceNoncePlaceholder(@, noncePlaceholder, nonceValue)])]
        ELSE IF /\ value.type = "object"
                /\ Truthy(Get(value.entries, "default"))
                /\ Includes(Get(value.entries, "default"), nonceToReplace)
        THEN [directive |-> entry.directive,
              value |-> Obj([value.entries EXCEPT !["default"] =
                    replaceNoncePlaceholder(@, noncePlaceholder, nonceValue)])]
        ELSE entry

computeRulesWithNonce(rules_, nonceValue, noncePlaceholder, developmentKey) ==
    [i \in 1..Len(rules_) |->
        RuleWithNonce(rules_[i], nonceValue, noncePlaceholder, developmentKey)]

\* lib/csp/CspHeaders.ts: HEADER_NAME_BY_REPORT_TYPE
HEADER_NAME_BY_REPORT_TYPE ==
    [report |-> "Content-Security-Policy-Report-Only",
     strict |-> "Content-Security-Policy"]

\* A slip: an absent report type read as 'report'.
computeHeaderNameByReportType_DefaultReport(reportType_) ==
    HEADER_NAME_BY_REPORT_TYPE[IF reportType_ = Undefined THEN "report" ELSE reportType_]

computeHeaderNameByReportType(reportType_) ==
    HEADER_NAME_BY_REPORT_TYPE[IF reportType_ = Undefined THEN "strict" ELSE reportType_]

\* noncesConfiguration?.developmentKey
DevelopmentKeyOf(noncesConfiguration_) ==
    IF IsGiven(noncesConfiguration_) THEN noncesConfiguration_.developmentKey ELSE Undefined

\* A slip: the substitution applied whether or not a nonce configuration is given.
MiddlewareRules_AlwaysSubstitute(rules_, nonce_, noncesConfiguration_) ==
    computeRulesWithNonce(rules_, nonce_,
        IF IsGiven(noncesConfiguration_) THEN noncesConfiguration_.nonceTemplate
        ELSE "{RANDOM}", Undefined)

\* The rule set the middleware compiles: computeRulesWithNonce is called with
\* three arguments, so its developmentKey parameter is undefined.
MiddlewareRules(rules_, nonce_, noncesConfiguration_) ==
    IF IsGiven(noncesConfiguration_)
    THEN computeRulesWithNonce(rules_, nonce_, noncesConfiguration_.nonceTemplate, Undefined)
    ELSE rules_

\* A slip: the rules compiled without the developmentKey.
MiddlewareDirectives_DefaultOnly(rules_, nonce_, noncesConfiguration_) ==
    computeDirectivesForDevelopmentEnvironment(
        MiddlewareRules(rules_, nonce_, noncesConfiguration_), Undefined)

\* The `directives` constant of the middleware.
MiddlewareDirectives(rules_, nonce_, noncesConfiguration_) ==
    computeDirectivesForDevelopmentEnvironment(
        MiddlewareRules(rules_, nonce_, noncesConfiguration_),
        DevelopmentKeyOf(noncesConfiguration_))

(***************************************************************************)
(* Inputs.                                                                 *)
(***************************************************************************)
\* Directive names (lib/csp/CspDirectives.ts).
Directives == {"default-src", "script-src", "style-src"}

\* Environment names of the caller.
Environments == {"development", "production"}

\* An optional environment argument.
OptionalEnvironments == Environments \cup {Undefined}

\* noncesConfiguration.nonceTemplate
NoncePlaceholders == {"{RANDOM}"}

\* Values generateNonce may return (base64 text).
Nonces == {"abc123", "Zm9vYg=="}

\* ---- lib/csp-configuration-generation/CspConfigurationFileGeneration.ts ----

\* A slip: the Nginx line without its closing semicolon.
computeConfigurationFileContent_NoSemicolon(headerName, directive) ==
    "# Nginx configuration\n"
        \o ("add_header " \o headerName \o " \"" \o directive \o "\"")
        \o "\n\n# Apache configuration\n"
        \o ("Header set " \o headerName \o " \"" \o directive \o "\"")
        \o "\n"

computeConfigurationFileContent(headerName, directive) ==
    LET nginxHeader == "add_header " \o headerName \o " \"" \o directive \o "\";"
        apacheHeader == "Header set " \o headerName \o " \"" \o directive \o "\""
    IN  "# Nginx configuration\n" \o nginxHeader
            \o "\n\n# Apache configuration\n" \o apacheHeader \o "\n"

\* ReportType (lib/csp/CspHeaders.ts)
ReportTypes == {"report", "strict"}

\* Header names and compiled directives handed to computeConfigurationFileContent.
HeaderNames == {"Content-Security-Policy", "Content-Security-Policy-Report-Only"}
DirectiveStrings == {"", "default-src 'self'", "default-src 'self'; script-src 'self' https://a.b"}

\* Plain-string origins: empty, without nonce, the nonce written without its
\* own quotes, the quoted nonce pattern once and twice.
StringOrigins ==
    {"", "'self'", "'self' nonce-{RANDOM}", "'self' 'nonce-{RANDOM}'",
     "'nonce-{RANDOM}' 'nonce-{RANDOM}'"}

\* Entries of an environment map.
EntryOrigins == {"", "'self'", "'nonce-{RANDOM}'"}

\* Environment maps: a default entry and entries for some environments.
EnvironmentMaps ==
    UNION {[({"default"} \cup E) -> EntryOrigins] : E \in SUBSET Environments}

\* AuthorisedOrigins<Environment>
AuthorisedOrigins ==
    {Str(s) : s \in StringOrigins} \cup {Obj(m) : m \in EnvironmentMaps}

\* The origins the rule sets are built from: the plain strings but 'self',
\* and the maps with a default entry and possibly a development entry.
RuleOrigins ==
    {Str(s) : s \in StringOrigins \ {"'self'"}}
    \cup {Obj(m) : m \in UNION {[({"default"} \cup E) -> EntryOrigins \ {""}] :
                                    E \in {{}, {"development"}}}}

\* CspPolicies with at most n entries, in insertion order.
RuleSets(n) ==
    {p \in UNION {[1..k -> [directive : Directives, value : RuleOrigins]] : k \in 0..n} :
        \A i, j \in 1..Len(p) : i # j => p[i].directive # p[j].directive}

(***************************************************************************)
(* The functions, each applied once to arguments drawn from the inputs.    *)
(* `call` holds the arguments; the action of the function sets the result. *)
(***************************************************************************)
NoCall == [fn |-> "none"]

\* No generation plugin: nothing configured, nothing on disk, nothing logged.
NoGenerationPlugin ==
    /\ environments = <<>>
    /\ cspConfigurationFilePath = Undefined
    /\ watching = FALSE
    /\ passes = <<>>
    /\ changes = <<>>
    /\ directories = {}
    /\ files = <<>>

\* The result field of a call that has not returned yet.
Pending == [done |-> FALSE, result |-> Undefined]

CallComputeOriginForEnvironment ==
    /\ call.fn = "computeOriginForEnvironment" /\ ~call.done
    /\ call' = [call EXCEPT !.done = TRUE,
                            !.result = computeOriginForEnvironment(call.origine,
                                                                   call.environment)]
    /\ UNCHANGED <<proxyVars, generationVars>>

CallComputeCspDirectiveForEnvironment ==
    /\ call.fn = "computeCspDirectiveForEnvironment" /\ ~call.done
    /\ call' = [call EXCEPT !.done = TRUE,
                            !.result = computeCspDirectiveForEnvironment(call.policies,
                                                                         call.environment)]
    /\ UNCHANGED <<proxyVars, generationVars>>

CallComputeDirectivesForDevelopmentEnvironment ==
    /\ call.fn = "computeDirectivesForDevelopmentEnvironment" /\ ~call.done
    /\ call' = [call EXCEPT !.done = TRUE,
                            !.result = computeDirectivesForDevelopmentEnvironment(
                                            call.policies, call.environment)]
    /\ UNCHANGED <<proxyVars, generationVars>>

CallReplaceNoncePlaceholder ==
    /\ call.fn = "replaceNoncePlaceholder" /\ ~call.done
    /\ call' = [call EXCEPT !.done = TRUE,
                            !.result = replaceNoncePlaceholder(call.initialValue,
                                            call.placeholder, call.nonceValue)]
    /\ UNCHANGED <<proxyVars, generationVars>>

CallComputeRulesWithNonce ==
    /\ call.fn = "computeRulesWithNonce" /\ ~call.done
    /\ call' = [call EXCEPT !.done = TRUE,
                            !.result = computeRulesWithNonce(call.policies, call.nonceValue,
                                            call.noncePlaceholder, call.environment)]
    /\ UNCHANGED <<proxyVars, generationVars>>

CallComputeHeaderNameByReportType ==
    /\ call.fn = "computeHeaderNameByReportType" /\ ~call.done
    /\ call' = [call EXCEPT !.done = TRUE,
                            !.result = computeHeaderNameByReportType(call.reportType)]
    /\ UNCHANGED <<proxyVars, generationVars>>

CallComputeConfigurationFileContent ==
    /\ call.fn = "computeConfigurationFileContent" /\ ~call.done
    /\ call' = [call EXCEPT !.done = TRUE,
                            !.result = computeConfigurationFileContent(call.headerName,
                                                                       call.directive)]
    /\ UNCHANGED <<proxyVars, generationVars>>

\* The arguments of the call, drawn from the inputs.
InitCall ==
    \/ \E origine \in AuthorisedOrigins, environment \in OptionalEnvironments :
          call = [fn |-> "computeOriginForEnvironment", origine |-> origine,
                  environment |-> environment] @@ Pending
    \/ \E policies \in RuleSets(MaxRules), environment \in OptionalEnvironments :
          call = [fn |-> "computeCspDirectiveForEnvironment", policies |-> policies,
                  environment |-> environment] @@ Pending
    \/ \E policies \in RuleSets(MaxRules), developmentKey \in OptionalEnvironments :
          call = [fn |-> "computeDirectivesForDevelopmentEnvironment",
                  policies |-> policies, environment |-> developmentKey] @@ Pending
    \/ \E initialValue \in StringOrigins, placeholder \in NoncePlaceholders,
          nonceValue \in Nonces :
          call = [fn |-> "replaceNoncePlaceholder", initialValue |-> initialValue,
                  placeholder |-> placeholder, nonceValue |-> nonceValue] @@ Pending
    \/ \E policies \in RuleSets(MaxRules), nonceValue \in Nonces,
          noncePlaceholder \in NoncePlaceholders, developmentKey \in OptionalEnvironments :
          call = [fn |-> "computeRulesWithNonce", policies |-> policies,
                  nonceValue |-> nonceValue, noncePlaceholder |-> noncePlaceholder,
                  environment |-> developmentKey] @@ Pending
    \/ \E reportType_ \in ReportTypes \cup {Undefined} :
          call = [fn |-> "computeHeaderNameByReportType", reportType |-> reportType_]
                    @@ Pending
    \/ \E headerName \in HeaderNames, directive \in DirectiveStrings :
          call = [fn |-> "computeConfigurationFileContent", headerName |-> headerName,
                  directive |-> directive] @@ Pending

InitFunctions ==
    /\ InitCall
    /\ rules = <<>>
    /\ noncesConfiguration = NoObject
    /\ reportType = Undefined
    /\ nonce = Undefined
    /\ html = NoObject
    /\ installed = FALSE
    /\ errors = 0
    /\ responses = <<>>
    /\ NoGenerationPlugin

NextFunctions ==
    \/ CallComputeOriginForEnvironment
    \/ CallComputeCspDirectiveForEnvironment
    \/ CallComputeDirectivesForDevelopmentEnvironment
    \/ CallReplaceNoncePlaceholder
    \/ CallComputeRulesWithNonce
    \/ CallComputeHeaderNameByReportType
    \/ CallComputeConfigurationFileContent

SpecFunctions == InitFunctions /\ [][NextFunctions]_vars

(***************************************************************************)
(* The CSP proxy plugin (lib/plugins/CspProxyPlugin.ts) and its middleware *)
(* (configureCspProxyServer).                                              *)
(***************************************************************************)
\* NoncesConfiguration<Environment>
NoncesConfigurations ==
    [nonceTemplate : NoncePlaceholders, developmentKey : {Undefined, "development"}]

\* server.config.html?.cspNonce
HtmlNonce == IF IsGiven(html) THEN html.cspNonce ELSE Undefined

\* The state once cspProxyPlugin(options) has returned: the options are
\* captured and the nonce is generated.
Init ==
    /\ call = NoCall
    /\ rules \in RuleSets(MaxProxyRules)
    /\ noncesConfiguration \in {NoObject} \cup NoncesConfigurations
    /\ reportType \in ReportTypes \cup {Undefined}
    /\ nonce \in Nonces
    /\ html \in {NoObject, [cspNonce |-> Undefined], [cspNonce |-> "{RANDOM}"]}
    /\ installed = FALSE
    /\ errors = 0
    /\ responses = <<>>
    /\ NoGenerationPlugin

\* A slip: html.cspNonce left as configured.
ConfigureServer_KeepHtml ==
    /\ ~installed
    /\ errors' = IF \/ (~Truthy(HtmlNonce) /\ IsGiven(noncesConfiguration))
                    \/ (Truthy(HtmlNonce) /\ ~IsGiven(noncesConfiguration))
                 THEN errors + 1 ELSE errors
    /\ installed' = TRUE
    /\ UNCHANGED <<call, rules, noncesConfiguration, reportType, nonce, html, responses>>
    /\ UNCHANGED generationVars

\* A slip: html.cspNonce overwritten only when a nonce configuration is given.
ConfigureServer_OverwriteWhenConfigured ==
    /\ ~installed
    /\ errors' = IF \/ (~Truthy(HtmlNonce) /\ IsGiven(noncesConfiguration))
                    \/ (Truthy(HtmlNonce) /\ ~IsGiven(noncesConfiguration))
                 THEN errors + 1 ELSE errors
    /\ html' = IF IsGiven(html) /\ IsGiven(noncesConfiguration)
               THEN [html EXCEPT !.cspNonce = nonce] ELSE html
    /\ installed' = TRUE
    /\ UNCHANGED <<call, rules, noncesConfiguration, reportType, nonce, responses>>
    /\ UNCHANGED generationVars

\* The plugin's configureServer hook.
ConfigureServer ==
    /\ ~installed
    /\ errors' = IF \/ (~Truthy(HtmlNonce) /\ IsGiven(noncesConfiguration))
                    \/ (Truthy(HtmlNonce) /\ ~IsGiven(noncesConfiguration))
                 THEN errors + 1 ELSE errors
    /\ html' = IF IsGiven(html) THEN [html EXCEPT !.cspNonce = nonce] ELSE html
    /\ installed' = TRUE
    /\ UNCHANGED <<call, rules, noncesConfiguration, reportType, nonce, responses>>
    /\ UNCHANGED generationVars

\* A variant: a nonce generated for each request.
Middleware_NoncePerRequest ==
    /\ installed
    /\ Len(responses) < MaxRequests
    /\ \E fresh \in Nonces :
        responses' = Append(responses,
            [locals |-> IF IsGiven(noncesConfiguration) THEN [cspNonce |-> fresh] ELSE NoObject,
             header |-> [name |-> computeHeaderNameByReportType(reportType),
                         value |-> MiddlewareDirectives(rules, fresh, noncesConfiguration)],
             next |-> 1])
    /\ UNCHANGED <<call, rules, noncesConfiguration, reportType, nonce, html, installed,
                   errors>>
    /\ UNCHANGED generationVars

\* A slip: next() skipped when the compiled policy is empty.
Middleware_NextUnlessEmpty ==
    /\ installed
    /\ Len(responses) < MaxRequests
    /\ responses' = Append(responses,
            [locals |-> IF IsGiven(noncesConfiguration) THEN [cspNonce |-> nonce] ELSE NoObject,
             header |-> [name |-> computeHeaderNameByReportType(reportType),
                         value |-> MiddlewareDirectives(rules, nonce, noncesConfiguration)],
             next |-> IF MiddlewareDirectives(rules, nonce, noncesConfiguration) = ""
                      THEN 0 ELSE 1])
    /\ UNCHANGED <<call, rules, noncesConfiguration, reportType, nonce, html, installed,
                   errors>>
    /\ UNCHANGED generationVars

\* A slip: the substitution written into the captured rule set.
Middleware_MutatesRules ==
    /\ installed
    /\ Len(responses) < MaxRequests
    /\ rules' = MiddlewareRules(rules, nonce, noncesConfiguration)
    /\ responses' = Append(responses,
            [locals |-> IF IsGiven(noncesConfiguration) THEN [cspNonce |-> nonce] ELSE NoObject,
             header |-> [name |-> computeHeaderNameByReportType(reportType),
                         value |-> MiddlewareDirectives(rules, nonce, noncesConfiguration)],
             next |-> 1])
    /\ UNCHANGED <<call, noncesConfiguration, reportType, nonce, html, installed, errors>>
    /\ UNCHANGED generationVars

\* The middleware installed by configureCspProxyServer, handling one request.
Middleware ==
    /\ installed
    /\ Len(responses) < MaxRequests
    /\ responses' = Append(responses,
            [locals |-> IF IsGiven(noncesConfiguration) THEN [cspNonce |-> nonce] ELSE NoObject,
             header |-> [name |-> computeHeaderNameByReportType(reportType),
                         value |-> MiddlewareDirectives(rules, nonce, noncesConfiguration)],
             next |-> 1])
    /\ UNCHANGED <<call, rules, noncesConfiguration, reportType, nonce, html, installed,
                   errors>>
    /\ UNCHANGED generationVars

Next ==
    \/ ConfigureServer
    \/ Middleware

Spec == Init /\ [][Next]_vars

(***************************************************************************)
(* The configuration file generation plugin                                *)
(* (lib/plugins/CspConfigurationFileGenerationPlugin.ts) and               *)
(* lib/csp-configuration-generation/CspConfigurationFileGeneration.ts.     *)
(*                                                                         *)
(* A pass is one call of generateFiles(): an async function that is        *)
(* suspended at `await mkdir(...)` or `await writeFile(...)` of the        *)
(* environment at its position, or has returned.  mkdir and writeFile      *)
(* settle one at a time, each with success or with an error of the file    *)
(* system; the code that follows the await up to the next await runs in    *)
(* the same step.                                                          *)
(***************************************************************************)
CONFIGURATIONS_DIRECTORY == "content-security-policy/configurations"

DEFAULT_CSP_CONFIGURATION_FILE_PATH == "content-security-policy/csp-configuration.ts"

viteConfigurationFile == "vite.config.ts"

RECURSIVE LastIndexOfSlash(_, _)
\* The position of the last "/" of s at or before i, 0 if none.
LastIndexOfSlash(s, i) ==
    IF i = 0 THEN 0
    ELSE IF SubSeq(s, i, i) = "/" THEN i
    ELSE LastIndexOfSlash(s, i - 1)

\* path.basename (POSIX) of a path that does not end with a separator
basename(p) == SubSeq(p, LastIndexOfSlash(p, Len(p)) + 1, Len(p))

\* path.join of a directory and a file name
PathJoin(directory, name) == directory \o "/" \o name

\* const cspConfigPath = cspConfigurationFilePath ?? '...'
cspConfigPath ==
    IF cspConfigurationFilePath = Undefined THEN DEFAULT_CSP_CONFIGURATION_FILE_PATH
    ELSE cspConfigurationFilePath

\* The rule sets of the generation plugin: one map whose production entry
\* differs from its default, and two rules, a plain string and a map.
GenerationRuleSets ==
    { <<[directive |-> "script-src",
         value |-> Obj([k \in {"default", "production"} |->
                            IF k = "default" THEN "'self'" ELSE "'self' https://a.b"])]>>,
      <<[directive |-> "default-src", value |-> Str("'self'")],
        [directive |-> "style-src",
         value |-> Obj([k \in {"default", "development"} |->
                            IF k = "default" THEN "'self'" ELSE ""])]>> }

\* A rule set whose environment map has no `default` entry (the type
\* AuthorisedOrigins asks for one; nothing checks it when the plugin runs).
RuleSetWithoutDefault ==
    <<[directive |-> "script-src",
       value |-> Obj([k \in {"development"} |-> "'self'"])]>>

\* The other options: the defaults, and report mode with a rules-source path.
GenerationOptions ==
    { [reportType |-> Undefined, cspConfigurationFilePath |-> Undefined],
      [reportType |-> "report", cspConfigurationFilePath |-> "config/csp.ts"] }

\* The environment sets, in iteration order.
EnvironmentSets == { <<>>, <<"production">>, <<"production", "development">> }

\* The paths the watcher reports.
ChangedPaths ==
    { "content-security-policy/csp-configuration.ts", "other/csp.ts",
      "packages/app/vite.config.ts" }

RECURSIVE FailuresOf(_, _)
\* The number of mkdir / writeFile calls of the first n passes that have failed.
FailuresOf(passes_, n) ==
    IF n = 0 THEN 0
    ELSE FailuresOf(passes_, n - 1)
            + Cardinality({i \in 1..Len(passes_[n].operations) :
                               ~passes_[n].operations[i].ok})

Failures == FailuresOf(passes, Len(passes))

\* A slip: the directive compiled for the first environment of the set.
StartEnvironment_FirstEnvironment(pass, position) ==
    IF position > Len(environments)
    THEN [pass EXCEPT !.position = position, !.awaiting = "none",
                      !.directive = Undefined, !.cspPath = Undefined,
                      !.content = Undefined]
    ELSE [pass EXCEPT !.position = position, !.awaiting = "mkdir",
                      !.directive = computeCspDirectiveForEnvironment(
                                        rules, environments[1]),
                      !.cspPath = Undefined, !.content = Undefined]

\* generateCspConfigurationFileForEnvironment up to `await mkdir(...)` for the
\* environment at `position`, or the end of the loop of generateFiles.
StartEnvironment(pass, position) ==
    IF position > Len(environments)
    THEN [pass EXCEPT !.position = position, !.awaiting = "none",
                      !.directive = Undefined, !.cspPath = Undefined,
                      !.content = Undefined]
    ELSE [pass EXCEPT !.position = position, !.awaiting = "mkdir",
                      !.directive = computeCspDirectiveForEnvironment(
                                        rules, environments[position]),
                      !.cspPath = Undefined, !.content = Undefined]

\* generateFiles() up to its first await; trigger is 0 for the startup pass
\* and the index of the change event for a pass started by handleOnChange.
\* operations are the mkdir / writeFile calls of the pass that have settled
\* and logs its logger.info / logger.error calls, in order.
generateFiles(trigger) ==
    StartEnvironment(
        [trigger |-> trigger,
         headerName |-> computeHeaderNameByReportType(reportType),
         position |-> 1, awaiting |-> "none", directive |-> Undefined,
         cspPath |-> Undefined, content |-> Undefined, raised |-> FALSE,
         operations |-> <<>>, logs |-> <<>>], 1)

\* A slip: the handler registered before the startup pass has ended.
WatcherOn_BeforeStartup(passes_) == TRUE

\* The code after `await generateFiles()` in
\* configureCspConfigurationFileGenerationPluginServer: server.watcher.on.
WatcherOn(passes_) ==
    watching \/ (passes_[1].trigger = 0 /\ passes_[1].awaiting = "none")

InitGeneration ==
    /\ call = NoCall
    /\ rules \in GenerationRuleSets \cup {RuleSetWithoutDefault}
    /\ environments \in EnvironmentSets
    /\ \E options \in GenerationOptions :
          /\ reportType = options.reportType
          /\ cspConfigurationFilePath = options.cspConfigurationFilePath
    /\ rules = RuleSetWithoutDefault => reportType = Undefined
    /\ noncesConfiguration = NoObject
    /\ nonce = Undefined
    /\ html = NoObject
    /\ installed = FALSE
    /\ errors = 0
    /\ responses = <<>>
    /\ watching = FALSE
    /\ passes = <<>>
    /\ changes = <<>>
    /\ directories = {}
    /\ files = <<>>

\* The plugin's configureServer hook: the startup pass begins.
GenerationConfigureServer ==
    /\ passes = <<>>
    /\ passes' = <<generateFiles(0)>>
    /\ watching' = WatcherOn(passes')
    /\ UNCHANGED <<call, proxyVars, environments, cspConfigurationFilePath, changes,
                   directories, files>>

\* fs.mkdir(path, {recursive: true}): the error it rejects with, Undefined
\* when it resolves.  fault is an error of the file system (EIO); with
\* `recursive` a directory that exists already is no error.
mkdir_NotRecursive(path, fault) ==
    IF fault THEN "EIO"
    ELSE IF path \in directories THEN "EEXIST"
    ELSE Undefined

mkdir(path, fault) == IF fault THEN "EIO" ELSE Undefined

\* fs.writeFile(path, content): the error it rejects with, Undefined when it
\* resolves.
writeFile(path, fault) == IF fault THEN "EIO" ELSE Undefined

\* The record of a settled mkdir / writeFile call of the pass.
Operation(pass, op, path, error) ==
    [environment |-> environments[pass.position], op |-> op, path |-> path,
     ok |-> error = Undefined]

\* A slip: no catch, a failure ends the pass and is raised to the caller.
Settled_NoCatch(pass, op, path, error) ==
    IF error = Undefined
    THEN StartEnvironment(
             [pass EXCEPT !.operations = Append(@, Operation(pass, op, path, error)),
                          !.logs = Append(@, [level |-> "info",
                                              environment |-> environments[pass.position],
                                              error |-> error])],
             pass.position + 1)
    ELSE [pass EXCEPT !.operations = Append(@, Operation(pass, op, path, error)),
                      !.awaiting = "none", !.raised = TRUE]

\* The pass after the try / catch of the environment at its position: the
\* call is recorded, the outcome logged (logger.info after the write,
\* logger.error with the error in the catch), and the loop goes on.
Settled(pass, op, path, error) ==
    StartEnvironment(
        [pass EXCEPT !.operations = Append(@, Operation(pass, op, path, error)),
                     !.logs = Append(@, [level |-> IF error = Undefined THEN "info"
                                                   ELSE "error",
                                         environment |-> environments[pass.position],
                                         error |-> error])],
        pass.position + 1)

\* A slip: writeFile not awaited, the loop goes on once mkdir has resolved.
MkdirSettles_WriteNotAwaited(p, ok) ==
    /\ p \in 1..Len(passes)
    /\ passes[p].awaiting = "mkdir"
    /\ ~ok => Failures < MaxFailures
    /\ directories' = IF ok THEN directories \cup {CONFIGURATIONS_DIRECTORY}
                            ELSE directories
    /\ passes' = [passes EXCEPT ![p] =
           Settled(@, "mkdir", CONFIGURATIONS_DIRECTORY,
                   mkdir(CONFIGURATIONS_DIRECTORY, ~ok))]
    /\ watching' = WatcherOn(passes')
    /\ UNCHANGED <<call, proxyVars, environments, cspConfigurationFilePath, changes,
                   files>>

\* `await mkdir(CONFIGURATIONS_DIRECTORY, {recursive: true})` of pass p
\* settles; ok is FALSE for an error of the file system.
MkdirSettles(p, ok) ==
    /\ p \in 1..Len(passes)
    /\ passes[p].awaiting = "mkdir"
    /\ ~ok => Failures < MaxFailures
    /\ LET error == mkdir(CONFIGURATIONS_DIRECTORY, ~ok) IN
       IF error = Undefined
       THEN /\ directories' = directories \cup {CONFIGURATIONS_DIRECTORY}
            /\ passes' = [passes EXCEPT ![p] =
                   [@ EXCEPT !.awaiting = "writeFile",
                             !.operations = Append(@,
                                 Operation(passes[p], "mkdir", CONFIGURATIONS_DIRECTORY,
                                           error)),
                             !.cspPath = PathJoin(CONFIGURATIONS_DIRECTORY,
                                 "csp-configuration."
                                     \o environments[passes[p].position] \o ".txt"),
                             !.content = computeConfigurationFileContent(
                                 passes[p].headerName, passes[p].directive)]]
       ELSE /\ directories' = directories
            /\ passes' = [passes EXCEPT ![p] =
                   Settled(@, "mkdir", CONFIGURATIONS_DIRECTORY, error)]
    /\ watching' = WatcherOn(passes')
    /\ UNCHANGED <<call, proxyVars, environments, cspConfigurationFilePath, changes,
                   files>>

\* A slip: the file opened for appending, the content added to what the file
\* held.
WriteFileSettles_Appends(p, ok) ==
    /\ p \in 1..Len(passes)
    /\ passes[p].awaiting = "writeFile"
    /\ ~ok => Failures < MaxFailures
    /\ LET error == writeFile(passes[p].cspPath, ~ok) IN
        /\ files' = IF error # Undefined THEN files
                    ELSE IF passes[p].cspPath \in DOMAIN files
                    THEN [files EXCEPT ![passes[p].cspPath] = @ \o passes[p].content]
                    ELSE (passes[p].cspPath :> passes[p].content) @@ files
        /\ passes' = [passes EXCEPT ![p] = Settled(@, "writeFile", @.cspPath, error)]
    /\ watching' = WatcherOn(passes')
    /\ UNCHANGED <<call, proxyVars, environments, cspConfigurationFilePath, changes,
                   directories>>

\* `await writeFile(cspPath, content, ...)` of pass p settles; ok is FALSE
\* for an error of the file system.  writeFile opens the file with its default
\* flag 'w', which empties it, and then writes the whole content: a call that
\* resolves leaves the file holding the content, a call that rejects leaves
\* the file as it was (the open failed) or empty (the write failed).
WriteFileSettles(p, ok) ==
    /\ p \in 1..Len(passes)
    /\ passes[p].awaiting = "writeFile"
    /\ ~ok => Failures < MaxFailures
    /\ LET error == writeFile(passes[p].cspPath, ~ok) IN
        /\ \E opened \in BOOLEAN :
              /\ error = Undefined => opened
              /\ files' = IF error = Undefined
                          THEN (passes[p].cspPath :> passes[p].content) @@ files
                          ELSE IF opened
                          THEN (passes[p].cspPath :> "") @@ files
                          ELSE files
        /\ passes' = [passes EXCEPT ![p] = Settled(@, "writeFile", @.cspPath, error)]
    /\ watching' = WatcherOn(passes')
    /\ UNCHANGED <<call, proxyVars, environments, cspConfigurationFilePath, changes,
                   directories>>

\* A variant: a notification dropped while a pass is running (coalescing).
Change_Coalesced(changedPath) ==
    /\ passes # <<>>
    /\ Len(changes) < MaxChanges
    /\ changes' = Append(changes, [path |-> changedPath, delivered |-> watching])
    /\ passes' =
         IF /\ watching
            /\ basename(changedPath) \in {basename(cspConfigPath), viteConfigurationFile}
            /\ \A p \in 1..Len(passes) : passes[p].awaiting = "none"
         THEN Append(passes, generateFiles(Len(changes) + 1))
         ELSE passes
    /\ UNCHANGED <<call, proxyVars, environments, cspConfigurationFilePath, watching,
                   directories, files>>

\* A slip: the paths compared whole.
Change_WholePath(changedPath) ==
    /\ passes # <<>>
    /\ Len(changes) < MaxChanges
    /\ changes' = Append(changes, [path |-> changedPath, delivered |-> watching])
    /\ passes' =
         IF watching /\ changedPath \in {cspConfigPath, viteConfigurationFile}
         THEN Append(passes, generateFiles(Len(changes) + 1))
         ELSE passes
    /\ UNCHANGED <<call, proxyVars, environments, cspConfigurationFilePath, watching,
                   directories, files>>

\* The watcher of the configured server emits 'change' for changedPath;
\* handleOnChange runs if it is registered.
Change(changedPath) ==
    /\ passes # <<>>
    /\ Len(changes) < MaxChanges
    /\ changes' = Append(changes, [path |-> changedPath, delivered |-> watching])
    /\ passes' =
         IF /\ watching
            /\ basename(changedPath) \in {basename(cspConfigPath), viteConfigurationFile}
         THEN Append(passes, generateFiles(Len(changes) + 1))
         ELSE passes
    /\ UNCHANGED <<call, proxyVars, environments, cspConfigurationFilePath, watching,
                   directories, files>>

NextGeneration ==
    \/ GenerationConfigureServer
    \/ \E p \in 1..Len(passes), ok \in BOOLEAN : MkdirSettles(p, ok)
    \/ \E p \in 1..Len(passes), ok \in BOOLEAN : WriteFileSettles(p, ok)
    \/ \E changedPath \in ChangedPaths : Change(changedPath)

SpecGeneration == InitGeneration /\ [][NextGeneration]_vars

(***************************************************************************)
(* Properties of the origin resolver and of the directive compilers.       *)
(***************************************************************************)
\* Number of non-overlapping occurrences of t (not empty) in s.
RECURSIVE CountOccurrences(_, _)
CountOccurrences(s, t) ==
    IF IndexOf(s, t) = 0 THEN 0
    ELSE 1 + CountOccurrences(SubSeq(s, IndexOf(s, t) + Len(t), Len(s)), t)

\* s with every occurrence of t (not empty) replaced by r.
RECURSIVE ReplaceAll(_, _, _)
ReplaceAll(s, t, r) ==
    IF IndexOf(s, t) = 0 THEN s
    ELSE SubSeq(s, 1, IndexOf(s, t) - 1) \o r
            \o ReplaceAll(SubSeq(s, IndexOf(s, t) + Len(t), Len(s)), t, r)

\* The entry an environment map m gives for environment e: m[e] when e is
\* provided and a key of m, m.default otherwise.
EntryFor(m, e) ==
    IF e # Undefined /\ e \in DOMAIN m THEN m[e] ELSE m["default"]

\* The string an origin stands for in environment e.
Resolved(origin, e) ==
    IF origin.type = "string" THEN origin.value ELSE EntryFor(origin.entries, e)

\* The first k clauses "<directive> <resolved value>" of p, each followed by
\* `after`, with `between` between two clauses.
RECURSIVE Clauses(_, _, _, _, _)
Clauses(p, e, k, between, after) ==
    IF k = 0 THEN ""
    ELSE Clauses(p, e, k - 1, between, after)
            \o (IF k > 1 THEN between ELSE "")
            \o p[k].directive \o " " \o Resolved(p[k].value, e) \o after

\* C1: computeOriginForEnvironment on an environment map m and environment e
\* returns m[e] when e is provided and is a key of m, and m.default in every
\* other case (e not a key of m, or e absent).
C1_EnvironmentMapResolution ==
    (call.fn = "computeOriginForEnvironment" /\ call.done /\ call.origine.type = "object")
        => call.result =
            IF call.environment # Undefined
               /\ call.environment \in DOMAIN call.origine.entries
            THEN call.origine.entries[call.environment]
            ELSE call.origine.entries["default"]

\* C1 witness: an environment that is a key of the map, with an entry (here
\* the empty string) other than the default one, has been resolved.
C1_Witness ==
    /\ call.fn = "computeOriginForEnvironment" /\ call.done
    /\ call.origine.type = "object"
    /\ call.environment = "production"
    /\ "production" \in DOMAIN call.origine.entries
    /\ call.origine.entries["production"] = ""
    /\ call.origine.entries["default"] = "'self'"
    /\ call.result = ""

\* C2: computeOriginForEnvironment on a plain string returns the string
\* unchanged for every environment argument, an absent one included.
C2_PlainStringUnchanged ==
    (call.fn = "computeOriginForEnvironment" /\ call.done /\ call.origine.type = "string")
        => call.result = call.origine.value

\* C2 witness: a plain string has been resolved for a given environment.
C2_Witness ==
    /\ call.fn = "computeOriginForEnvironment" /\ call.done
    /\ call.origine.type = "string"
    /\ call.environment = "production"
    /\ call.result = "'self' nonce-{RANDOM}"

\* C3: computeCspDirectiveForEnvironment(rules, e) is the clauses
\* "<directive> <resolve(value, e)>" joined by "; ", with no leading or
\* trailing separator, and the empty string for an empty rule set.
C3_ClausesJoinedBySemicolonSpace ==
    (call.fn = "computeCspDirectiveForEnvironment" /\ call.done)
        => /\ call.result =
                Clauses(call.policies, call.environment, Len(call.policies), "; ", "")
           /\ Len(call.policies) = 0 => call.result = ""
           /\ Len(call.policies) > 0 =>
                /\ SubSeq(call.result, 1, Len(call.policies[1].directive))
                        = call.policies[1].directive
                /\ CountOccurrences(call.result, "; ") = Len(call.policies) - 1

\* C3 witness: two rules, the second an environment map with an entry for
\* the environment, have been compiled.
C3_Witness ==
    /\ call.fn = "computeCspDirectiveForEnvironment" /\ call.done
    /\ call.environment = "development"
    /\ Len(call.policies) = 2
    /\ call.policies[2].value.type = "object"
    /\ call.environment \in DOMAIN call.policies[2].value.entries
    /\ call.policies[2].value.entries["default"] = "'self'"
    /\ call.result = "script-src 'self' nonce-{RANDOM}; default-src 'nonce-{RANDOM}'"

\* C4: the live-serving compilation emits "<directive> <value>;" for every
\* entry and concatenates the clauses with no separator between them (no
\* space after a semicolon); the empty string for an empty rule set.
C4_LiveClausesWithoutSpace ==
    (call.fn = "computeDirectivesForDevelopmentEnvironment" /\ call.done)
        => call.result =
            Clauses(call.policies, call.environment, Len(call.policies), "", ";")

\* The compilation calls: both modes record policies, environment, result.
IsCompilation ==
    /\ call.fn \in {"computeCspDirectiveForEnvironment",
                    "computeDirectivesForDevelopmentEnvironment"}
    /\ call.done

\* C6: in both compilation modes the directives appear in the compiled
\* string in the insertion order of the rule set.
C6_InsertionOrderPreserved ==
    IsCompilation
        => \A i, j \in 1..Len(call.policies) :
              i < j =>
                /\ IndexOf(call.result, call.policies[i].directive \o " ") > 0
                /\ IndexOf(call.result, call.policies[i].directive \o " ")
                     < IndexOf(call.result, call.policies[j].directive \o " ")

\* C6 witness: a rule set whose insertion order is not the alphabetical one
\* has been compiled for an environment.
C6_Witness ==
    /\ call.fn = "computeCspDirectiveForEnvironment" /\ call.done
    /\ Len(call.policies) = 2
    /\ call.policies[1].directive = "style-src"
    /\ call.policies[2].directive = "default-src"
    /\ IndexOf(call.result, "style-src ") = 1
    /\ IndexOf(call.result, "default-src ") > 1

\* C7: in both modes every entry of the rule set contributes exactly one
\* clause, an entry whose resolved value is empty included: each directive
\* occurs once and there are as many clauses as entries.
C7_OneClausePerEntry ==
    IsCompilation
        => /\ \A i \in 1..Len(call.policies) :
                CountOccurrences(call.result, call.policies[i].directive \o " ") = 1
           /\ call.fn = "computeDirectivesForDevelopmentEnvironment"
                => CountOccurrences(call.result, ";") = Len(call.policies)
           /\ (call.fn = "computeCspDirectiveForEnvironment" /\ Len(call.policies) > 0)
                => CountOccurrences(call.result, ";") = Len(call.policies) - 1

\* C7 witness: the live-serving compilation of two entries, the first with
\* an empty resolved value.
C7_Witness ==
    /\ call.fn = "computeDirectivesForDevelopmentEnvironment" /\ call.done
    /\ Len(call.policies) = 2
    /\ Resolved(call.policies[1].value, call.environment) = ""
    /\ CountOccurrences(call.result, ";") = 2

\* C8: the substitution of a plain-string value containing the nonce
\* pattern replaces every occurrence of the placeholder by the nonce and
\* leaves the other text unchanged.
C8_EveryOccurrenceReplaced ==
    (call.fn = "computeRulesWithNonce" /\ call.done)
        => \A i \in 1..Len(call.policies) :
              (/\ call.policies[i].value.type = "string"
               /\ Includes(call.policies[i].value.value,
                           NonceToReplace(call.noncePlaceholder)))
                => /\ call.result[i].value.type = "string"
                   /\ call.result[i].value.value =
                        ReplaceAll(call.policies[i].value.value,
                                   call.noncePlaceholder, call.nonceValue)
                   /\ ~Includes(call.result[i].value.value, call.noncePlaceholder)

\* The environment maps of a substitution call in which both the
\* developmentKey entry and the default entry contain the nonce pattern.
BothEntriesMatch(i) ==
    /\ call.policies[i].value.type = "object"
    /\ call.environment # Undefined
    /\ call.environment \in DOMAIN call.policies[i].value.entries
    /\ Includes(call.policies[i].value.entries[call.environment],
                NonceToReplace(call.noncePlaceholder))
    /\ Includes(call.policies[i].value.entries["default"],
                NonceToReplace(call.noncePlaceholder))

\* C10 (as stated): when developmentKey is set and both the developmentKey
\* entry and the default entry contain the nonce pattern, both entries have
\* their placeholder replaced in the same pass.
C10_BothEntriesReplaced ==
    (call.fn = "computeRulesWithNonce" /\ call.done)
        => \A i \in 1..Len(call.policies) :
              BothEntriesMatch(i)
                => /\ ~Includes(call.result[i].value.entries[call.environment],
                                call.noncePlaceholder)
                   /\ ~Includes(call.result[i].value.entries["default"],
                                call.noncePlaceholder)

\* C10 (amended): the checks are tried in order and the first match returns:
\* when developmentKey is set and both entries contain the nonce pattern,
\* only the developmentKey entry has its placeholder replaced and the
\* default entry is returned unchanged.
C10_DevelopmentEntryOnly ==
    (call.fn = "computeRulesWithNonce" /\ call.done)
        => \A i \in 1..Len(call.policies) :
              BothEntriesMatch(i)
                => /\ call.result[i].directive = call.policies[i].directive
                   /\ call.result[i].value.entries[call.environment] =
                        StringReplace(call.policies[i].value.entries[call.environment],
                                      call.noncePlaceholder, call.nonceValue)
                   /\ call.result[i].value.entries["default"] =
                        call.policies[i].value.entries["default"]
                   /\ DOMAIN call.result[i].value.entries =
                        DOMAIN call.policies[i].value.entries

\* C10 witness: a substitution call with developmentKey set on a map whose
\* development and default entries both contain the pattern.
C10_Witness ==
    /\ call.fn = "computeRulesWithNonce" /\ call.done
    /\ call.environment = "development"
    /\ Len(call.policies) = 1
    /\ BothEntriesMatch(1)
    /\ call.result[1].value.entries["development"] = "'nonce-" \o call.nonceValue \o "'"
    /\ call.result[1].value.entries["default"] = "'nonce-{RANDOM}'"

(***************************************************************************)
(* Properties of the policy header the proxy middleware sends.             *)
(***************************************************************************)
\* The rule set whose values the middleware compiles (after substitution).
Served == MiddlewareRules(rules, nonce, noncesConfiguration)

C9_UnquotedNonceReplaced ==
    \A r \in 1..Len(responses), i \in 1..Len(rules) :
        (/\ IsGiven(noncesConfiguration)
         /\ rules[i].value.type = "string"
         /\ Includes(rules[i].value.value, "nonce-" \o noncesConfiguration.nonceTemplate)
         /\ ~Includes(rules[i].value.value, NonceToReplace(noncesConfiguration.nonceTemplate)))
            => /\ Includes(responses[r].header.value, "nonce-" \o nonce)
               /\ ~Includes(responses[r].header.value,
                            "nonce-" \o noncesConfiguration.nonceTemplate)

\* C11: with a nonce configuration that sets developmentKey, a map whose
\* developmentKey entry contains the nonce pattern has that entry's
\* placeholder replaced in the rule set the proxy compiles, so the header
\* carries the nonce and not the placeholder for that directive.
C11_DevelopmentEntrySubstitutedInHeader ==
    \A r \in 1..Len(responses), i \in 1..Len(rules) :
        (/\ IsGiven(noncesConfiguration)
         /\ noncesConfiguration.developmentKey # Undefined
         /\ rules[i].value.type = "object"
         /\ noncesConfiguration.developmentKey \in DOMAIN rules[i].value.entries
         /\ Includes(rules[i].value.entries[noncesConfiguration.developmentKey],
                     NonceToReplace(noncesConfiguration.nonceTemplate)))
            => /\ Includes(responses[r].header.value,
                    rules[i].directive \o " "
                        \o ReplaceAll(rules[i].value.entries[noncesConfiguration.developmentKey],
                                      noncesConfiguration.nonceTemplate, nonce) \o ";")
               /\ ~Includes(responses[r].header.value,
                    rules[i].directive \o " "
                        \o rules[i].value.entries[noncesConfiguration.developmentKey])

\* C12: with a nonce configuration and an html section, the nonce written to
\* server.config.html.cspNonce at configureServer, the nonce substituted
\* into the policy header and the nonce stored in response.locals.cspNonce
\* are the same value on every request.
C12_OneNonceEverywhere ==
    (IsGiven(noncesConfiguration) /\ IsGiven(html) /\ installed)
        => \A r \in 1..Len(responses) :
              /\ responses[r].locals.cspNonce = html.cspNonce
              /\ \A n \in Nonces \ {html.cspNonce} :
                    ~Includes(responses[r].header.value, "nonce-" \o n)
              /\ \A i \in 1..Len(rules) :
                    rules[i].value = Str("'self' 'nonce-{RANDOM}'")
                        => Includes(responses[r].header.value,
                                    "'self' 'nonce-" \o html.cspNonce \o "'")

\* C12 witness: a request served with a nonce configuration, an html section
\* with cspNonce configured and a rule carrying the quoted nonce pattern.
C12_Witness ==
    /\ IsGiven(noncesConfiguration) /\ IsGiven(html) /\ installed
    /\ Len(responses) > 0
    /\ Len(rules) = 1
    /\ rules[1].value = Str("'self' 'nonce-{RANDOM}'")
    /\ html.cspNonce = "Zm9vYg=="
    /\ responses[1].locals.cspNonce = "Zm9vYg=="
    /\ Includes(responses[1].header.value, "'nonce-Zm9vYg=='")

C14_RulesNeverMutated == [][rules' = rules]_vars

\* C14 witness: two requests served from a rule set that the substitution
\* pass rewrites.
C14_Witness ==
    /\ Len(responses) = 2
    /\ Served # rules
    /\ Len(rules) = 1
    /\ rules[1].value = Obj([k \in {"default"} |-> "'nonce-{RANDOM}'"])
    /\ responses[2].header.value = rules[1].directive \o " 'nonce-" \o nonce \o "'; "

\* C15: without a nonce configuration no substitution occurs: the header of
\* every request is the live-serving compilation of the unmodified rule set
\* and response.locals is not touched.
C15_NoConfigurationNoSubstitution ==
    ~IsGiven(noncesConfiguration)
        => \A r \in 1..Len(responses) :
              /\ responses[r].header.value
                    = Clauses(rules, Undefined, Len(rules), "", "; ")
              /\ responses[r].locals = NoObject
              /\ ~Includes(responses[r].header.value, nonce)

\* C15 witness: a request served without nonce configuration from a rule
\* carrying the quoted nonce pattern, which stays in the header.
C15_Witness ==
    /\ ~IsGiven(noncesConfiguration)
    /\ Len(responses) > 0
    /\ Len(rules) = 1
    /\ rules[1].value = Str("'self' 'nonce-{RANDOM}'")
    /\ responses[1].header.value = rules[1].directive \o " 'self' 'nonce-{RANDOM}'; "
    /\ responses[1].locals = NoObject

\* C16: computeHeaderNameByReportType returns
\* "Content-Security-Policy-Report-Only" for `report` and
\* "Content-Security-Policy" for `strict` and for an absent mode.
C16_HeaderNameByReportType ==
    (call.fn = "computeHeaderNameByReportType" /\ call.done)
        => /\ call.reportType = "report"
                => call.result = "Content-Security-Policy-Report-Only"
           /\ call.reportType = "strict" => call.result = "Content-Security-Policy"
           /\ call.reportType = Undefined => call.result = "Content-Security-Policy"

\* C16 witness: the header name has been computed for an absent mode.
C16_Witness ==
    /\ call.fn = "computeHeaderNameByReportType" /\ call.done
    /\ call.reportType = Undefined
    /\ call.result = "Content-Security-Policy"

\* The lines of a text, each followed by a newline.
Lines(lines) == Join(lines, "\n") \o "\n"

\* C17: computeConfigurationFileContent(headerName, directive) returns
\* exactly the lines `# Nginx configuration`,
\* `add_header <headerName> "<directive>";`, an empty line,
\* `# Apache configuration`, `Header set <headerName> "<directive>"`,
\* ending with a newline.
C17_ConfigurationFileContent ==
    (call.fn = "computeConfigurationFileContent" /\ call.done)
        => call.result = Lines(<<
               "# Nginx configuration",
               "add_header " \o call.headerName \o " \"" \o call.directive \o "\";",
               "",
               "# Apache configuration",
               "Header set " \o call.headerName \o " \"" \o call.directive \o "\"" >>)

\* C17 witness: the content computed for the default header and one clause.
C17_Witness ==
    /\ call.fn = "computeConfigurationFileContent" /\ call.done
    /\ call.headerName = "Content-Security-Policy"
    /\ call.directive = "default-src 'self'"
    /\ call.result = "# Nginx configuration\nadd_header Content-Security-Policy \"default-src 'self'\";\n\n# Apache configuration\nHeader set Content-Security-Policy \"default-src 'self'\"\n"
    /\ Len(call.result) = 159

\* The part of a path after its last "/".
BaseName(path) ==
    LET k == CHOOSE k \in 0..Len(path) :
                 /\ k = 0 \/ SubSeq(path, k, k) = "/"
                 /\ \A j \in (k + 1)..Len(path) : SubSeq(path, j, j) # "/"
    IN  SubSeq(path, k + 1, Len(path))

\* Whether name, which holds no "/", is the base name of path: path is name
\* or ends with "/" and name.
HasBaseName(path, name) ==
    \/ path = name
    \/ /\ Len(path) > Len(name)
       /\ SubSeq(path, Len(path) - Len(name), Len(path)) = "/" \o name

\* Whether a changed path qualifies for regeneration.
Qualifies(path) ==
    \/ HasBaseName(path, "vite.config.ts")
    \/ HasBaseName(path, BaseName(IF cspConfigurationFilePath = Undefined
                                  THEN "content-security-policy/csp-configuration.ts"
                                  ELSE cspConfigurationFilePath))

\* The artifact of environment e.
ArtifactPath(e) == "content-security-policy/configurations/csp-configuration." \o e \o ".txt"

\* The settled calls of kind op of a pass for environment e.
OperationsOf(pass, op, e) ==
    {k \in 1..Len(pass.operations) :
        pass.operations[k].op = op /\ pass.operations[k].environment = e}

\* The environments for which a pass has called mkdir, in call order.
Attempted(pass) ==
    SelectSeq(pass.operations, LAMBDA o : o.op = "mkdir")

\* A pass that has returned went through every environment, in order.
RanForEveryEnvironment(pass) ==
    /\ Len(Attempted(pass)) = Len(environments)
    /\ \A i \in 1..Len(environments) : Attempted(pass)[i].environment = environments[i]

\* The passes started by the change event i.
PassesOf(i) == {p \in 1..Len(passes) : passes[p].trigger = i}

\* C18: the change handler compares base names only: a changed path whose
\* base name is that of the configured rules-source path (default
\* content-security-policy/csp-configuration.ts) or is vite.config.ts starts
\* the generation routine, which runs for every configured environment; any
\* other base name causes no directory creation, no file write and no state
\* change.
C18_ChangeHandlerComparesBaseNames ==
    /\ [](\A i \in 1..Len(changes) :
            changes[i].delivered =>
                IF Qualifies(changes[i].path)
                THEN /\ Cardinality(PassesOf(i)) = 1
                     /\ \A p \in PassesOf(i) :
                           passes[p].awaiting = "none" => RanForEveryEnvironment(passes[p])
                ELSE PassesOf(i) = {})
    /\ [][(/\ Len(changes') = Len(changes) + 1
           /\ ~Qualifies(changes'[Len(changes')].path))
              => UNCHANGED <<passes, directories, files, watching, rules, reportType,
                             environments, cspConfigurationFilePath>>]_vars

\* C18 witness: with a configured rules-source path, a change of a file of
\* the same base name in another directory has regenerated both artifacts,
\* and a change of the default rules-source path has started nothing.
C18_Witness ==
    /\ cspConfigurationFilePath = "config/csp.ts"
    /\ Len(environments) = 2
    /\ Len(changes) = 2
    /\ changes[1] = [path |-> "other/csp.ts", delivered |-> TRUE]
    /\ changes[2] = [path |-> "content-security-policy/csp-configuration.ts",
                     delivered |-> TRUE]
    /\ Len(passes) = 2
    /\ passes[2].trigger = 1
    /\ passes[2].awaiting = "none"
    /\ Len(passes[2].operations) = 4

\* C19 as stated: at setup the generation routine runs once, unconditionally
\* and before any change notification is handled, and attempts for every
\* environment e exactly one artifact write, to
\* content-security-policy/configurations/csp-configuration.<e>.txt.
C19_OneWriteForEveryEnvironment ==
    passes # <<>> =>
        /\ PassesOf(0) = {1}
        /\ \A i \in 1..Len(changes) : changes[i].delivered => passes[1].awaiting = "none"
        /\ passes[1].awaiting = "none" =>
              \A i \in 1..Len(environments) :
                  /\ Cardinality(OperationsOf(passes[1], "writeFile", environments[i])) = 1
                  /\ \A k \in OperationsOf(passes[1], "writeFile", environments[i]) :
                        passes[1].operations[k].path = ArtifactPath(environments[i])

\* C19 amended: at setup the generation routine runs once, unconditionally
\* and before any change notification is handled; for every environment e
\* it attempts the directory creation once and, when that succeeds, exactly
\* one artifact write, to
\* content-security-policy/configurations/csp-configuration.<e>.txt; when
\* the directory creation fails no write is attempted for e.
C19_OneWriteWhereDirectoryCreated ==
    passes # <<>> =>
        /\ PassesOf(0) = {1}
        /\ \A i \in 1..Len(changes) : changes[i].delivered => passes[1].awaiting = "none"
        /\ \A p \in 1..Len(passes) : passes[p].trigger # 0 => passes[1].awaiting = "none"
        /\ passes[1].awaiting = "none" =>
              \A i \in 1..Len(environments) :
                  /\ Cardinality(OperationsOf(passes[1], "mkdir", environments[i])) = 1
                  /\ \A k \in OperationsOf(passes[1], "mkdir", environments[i]) :
                        Cardinality(OperationsOf(passes[1], "writeFile", environments[i]))
                            = IF passes[1].operations[k].ok THEN 1 ELSE 0
                  /\ \A k \in OperationsOf(passes[1], "writeFile", environments[i]) :
                        passes[1].operations[k].path = ArtifactPath(environments[i])

\* C19 witness: the startup pass has ended with one write for each of two
\* environments, a change emitted while it ran was not handled and a later
\* one was.
C19_Witness ==
    /\ Len(environments) = 2
    /\ passes # <<>>
    /\ passes[1].awaiting = "none"
    /\ Len(passes[1].operations) = 4
    /\ passes[1].operations[2].path
          = "content-security-policy/configurations/csp-configuration.production.txt"
    /\ passes[1].operations[4].path
          = "content-security-policy/configurations/csp-configuration.development.txt"
    /\ Len(changes) = 2
    /\ ~changes[1].delivered
    /\ changes[2].delivered

\* C20: in a generation pass a failure of the directory creation or of the
\* file write for one environment is caught and logged with that
\* environment, the pass continues with every remaining environment, and
\* the pass ends without raising an error to its caller.
C20_PartialFailureIsolation ==
    \A p \in 1..Len(passes) :
        /\ ~passes[p].raised
        /\ \A i \in 1..Len(environments) :
              Cardinality({k \in 1..Len(passes[p].logs) :
                              /\ passes[p].logs[k].level = "error"
                              /\ passes[p].logs[k].environment = environments[i]})
                = Cardinality({k \in 1..Len(passes[p].operations) :
                                  /\ ~passes[p].operations[k].ok
                                  /\ passes[p].operations[k].environment = environments[i]})
        /\ passes[p].awaiting = "none" => RanForEveryEnvironment(passes[p])

\* C20 witness: a pass over two environments has ended; the directory
\* creation failed for the first, which was logged, and the artifact of the
\* second was written.
C20_Witness ==
    \E p \in 1..Len(passes) :
        /\ Len(environments) = 2
        /\ passes[p].awaiting = "none"
        /\ ~passes[p].raised
        /\ Len(passes[p].operations) = 3
        /\ passes[p].operations[1]
              = [environment |-> environments[1], op |-> "mkdir",
                 path |-> "content-security-policy/configurations", ok |-> FALSE]
        /\ passes[p].logs[1] = [level |-> "error", environment |-> environments[1],
                                error |-> "EIO"]
        /\ passes[p].operations[3].op = "writeFile"
        /\ passes[p].operations[3].ok
        /\ ArtifactPath(environments[2]) \in DOMAIN files

\* Whether a rule set holds an environment map without a `default` entry.
LacksDefault(rules_) ==
    \E i \in 1..Len(rules_) :
        rules_[i].value.type = "object" /\ "default" \notin DOMAIN rules_[i].value.entries

\* C21: a rule whose environment map lacks a `default` entry is a fatal
\* configuration error raised at setup: startup is aborted before any
\* artifact is written (no directory created, no write attempted, no pass
\* left running, no watcher registered).
C21_MissingDefaultAbortsStartup ==
    LacksDefault(rules) =>
        /\ files = <<>>
        /\ directories = {}
        /\ ~watching
        /\ \A p \in 1..Len(passes) : passes[p].operations = <<>>

RECURSIVE ProductionClauses(_, _, _)
\* The first k clauses of p for environment e, joined by "; "; a map with
\* neither an entry for e nor a default gives the text "undefined".
ProductionClauses(p, e, k) ==
    IF k = 0 THEN ""
    ELSE ProductionClauses(p, e, k - 1)
            \o (IF k > 1 THEN "; " ELSE "")
            \o p[k].directive \o " "
            \o (IF /\ p[k].value.type = "object"
                   /\ e \notin DOMAIN p[k].value.entries
                   /\ "default" \notin DOMAIN p[k].value.entries
                THEN "undefined"
                ELSE Resolved(p[k].value, e))

\* The content of the artifact of environment e.
ArtifactContent(e) ==
    LET headerName == IF reportType = "report" THEN "Content-Security-Policy-Report-Only"
                      ELSE "Content-Security-Policy"
        directive == ProductionClauses(rules, e, Len(rules))
    IN  Lines(<< "# Nginx configuration",
                 "add_header " \o headerName \o " \"" \o directive \o "\";",
                 "",
                 "# Apache configuration",
                 "Header set " \o headerName \o " \"" \o directive \o "\"" >>)

\* C22: generation is idempotent: every pass (the startup pass and each pass
\* started by a qualifying notification) writes for each environment e the
\* same content, computeConfigurationFileContent(headerName(reportType),
\* computeCspDirectiveForEnvironment(rules, e)): the content handed to every
\* writeFile call is that text, and so is the content of every file on disk
\* that a failed write has not left empty.
C22_GenerationIdempotent ==
    /\ \A p \in 1..Len(passes) :
          passes[p].awaiting = "writeFile" =>
              /\ passes[p].content = ArtifactContent(environments[passes[p].position])
              /\ passes[p].cspPath = ArtifactPath(environments[passes[p].position])
    /\ \A i \in 1..Len(environments) :
          ArtifactPath(environments[i]) \in DOMAIN files
              => files[ArtifactPath(environments[i])]
                    \in {ArtifactContent(environments[i]), ""}

\* C22 witness: the startup pass and a pass started by a notification have
\* both written the artifacts of two environments, whose contents differ.
C22_Witness ==
    /\ Len(environments) = 2
    /\ Len(passes) = 2
    /\ \A p \in {1, 2} :
          /\ passes[p].awaiting = "none"
          /\ Len(passes[p].operations) = 4
          /\ \A k \in 1..4 : passes[p].operations[k].ok
    /\ DOMAIN files = {ArtifactPath(environments[1]), ArtifactPath(environments[2])}
    /\ files[ArtifactPath(environments[1])] # files[ArtifactPath(environments[2])]

\* The nonce pattern of a placeholder: 'nonce-<placeholder>', quotes included.
NoncePattern(placeholder) == "'nonce-" \o placeholder \o "'"

\* Whether the values of a rule that the substitution looks at (the plain
\* string, the developmentKey entry, the default entry) hold the pattern.
HasPattern(value, placeholder, developmentKey) ==
    IF value.type = "string" THEN Includes(value.value, NoncePattern(placeholder))
    ELSE \E k \in DOMAIN value.entries \cap {developmentKey, "default"} :
            Includes(value.entries[k], NoncePattern(placeholder))

\* C23: substitution is a silent no-op where nothing matches: a directive
\* whose plain string, developmentKey entry and default entry do not contain
\* the nonce pattern is returned with its input value, and a rule set in
\* which no such value contains the pattern is returned equal to the input.
C23_NoMatchNoChange ==
    (call.fn = "computeRulesWithNonce" /\ call.done)
        => /\ Len(call.result) = Len(call.policies)
           /\ \A i \in 1..Len(call.policies) :
                 ~HasPattern(call.policies[i].value, call.noncePlaceholder, call.environment)
                    => call.result[i] = call.policies[i]
           /\ (\A i \in 1..Len(call.policies) :
                 ~HasPattern(call.policies[i].value, call.noncePlaceholder, call.environment))
                    => call.result = call.policies

\* C23 witness: a rule set of two rules without the pattern, one of them
\* holding the placeholder without the quotes, has been returned unchanged.
C23_Witness ==
    /\ call.fn = "computeRulesWithNonce" /\ call.done
    /\ Len(call.policies) = 2
    /\ call.policies[1].value = Str("'self' nonce-{RANDOM}")
    /\ call.policies[2].value.type = "object"
    /\ call.environment = "development"
    /\ call.result = call.policies

\* C24: substitution is idempotent: where the nonce does not contain the
\* placeholder text, the substitution pass applied to the result of a first
\* pass returns that result.
C24_SubstitutionIdempotent ==
    (/\ call.fn = "computeRulesWithNonce" /\ call.done
     /\ ~Includes(call.nonceValue, call.noncePlaceholder))
        => computeRulesWithNonce(call.result, call.nonceValue, call.noncePlaceholder,
                                 call.environment) = call.result

\* C25: for every request the middleware sets one policy header, named by
\* the report mode and holding the compiled policy, and then calls next()
\* exactly once.
C25_OneHeaderThenNext ==
    \A r \in 1..Len(responses) :
        /\ responses[r].header.name
              = (IF reportType = "report" THEN "Content-Security-Policy-Report-Only"
                 ELSE "Content-Security-Policy")
        /\ responses[r].header.value
              = Clauses(Served, DevelopmentKeyOf(noncesConfiguration), Len(Served), "", "; ")
        /\ responses[r].next = 1

\* C25 witness: two requests served in report mode from an empty rule set,
\* each with an empty policy and next() called.
C25_Witness ==
    /\ Len(responses) = 2
    /\ rules = <<>>
    /\ reportType = "report"
    /\ \A r \in {1, 2} :
          /\ responses[r].header
                = [name |-> "Content-Security-Policy-Report-Only", value |-> ""]
          /\ responses[r].next = 1

\* The change events that were delivered to the handler and qualify.
QualifyingNotifications ==
    {i \in 1..Len(changes) : changes[i].delivered /\ Qualifies(changes[i].path)}

\* C26: change notifications are neither debounced nor coalesced nor
\* reordered: k qualifying notifications start exactly k generation passes,
\* in the order of their delivery, in addition to the startup pass.
C26_OnePassPerQualifyingNotification ==
    passes # <<>> =>
        LET qualifying == QualifyingNotifications IN
        /\ passes[1].trigger = 0
        /\ Len(passes) = 1 + Cardinality(qualifying)
        /\ \A p \in 2..Len(passes) : passes[p].trigger \in qualifying
        /\ \A p \in 2..Len(passes) : passes[p - 1].trigger < passes[p].trigger

\* C26 witness: two qualifying notifications were delivered, the second
\* while the pass of the first was running, and each has started its pass.
C26_Witness ==
    /\ Len(environments) = 2
    /\ Len(changes) = 2
    /\ QualifyingNotifications = {1, 2}
    /\ Len(passes) = 3
    /\ passes[2].trigger = 1 /\ passes[2].awaiting = "writeFile"
    /\ passes[3].trigger = 2 /\ passes[3].awaiting = "mkdir"

\* The position of environment e in the iteration order of the set.
IndexOfEnvironment(e) == CHOOSE i \in 1..Len(environments) : environments[i] = e

\* Whether the pass is done with the environment at position i: its
\* directory creation has failed, or its write has settled.
EnvironmentSettled(pass, i) ==
    \E k \in 1..Len(pass.operations) :
        /\ pass.operations[k].op = "mkdir"
        /\ pass.operations[k].environment = environments[i]
        /\ \/ ~pass.operations[k].ok
           \/ /\ k < Len(pass.operations)
              /\ pass.operations[k + 1].op = "writeFile"
              /\ pass.operations[k + 1].environment = environments[i]

\* C27: within one pass the environments are processed one at a time in the
\* iteration order of the environment set: the directory creation and the
\* write for environment i have completed or failed, and been logged, before
\* anything is started for environment i+1, and the pass returns only after
\* the last environment has completed or failed.
C27_EnvironmentsOneAtATimeInOrder ==
    \A p \in 1..Len(passes) :
        LET pass == passes[p] IN
        /\ \A k \in 2..Len(pass.operations) :
              IndexOfEnvironment(pass.operations[k - 1].environment)
                  <= IndexOfEnvironment(pass.operations[k].environment)
        /\ \A k \in 1..Len(pass.operations) :
              IndexOfEnvironment(pass.operations[k].environment) <= pass.position
        /\ Len(pass.logs) = pass.position - 1
        /\ \A i \in 1..(pass.position - 1) :
              /\ EnvironmentSettled(pass, i)
              /\ pass.logs[i].environment = environments[i]
        /\ pass.awaiting = "none" <=> pass.position = Len(environments) + 1
        /\ pass.awaiting = "mkdir" =>
              OperationsOf(pass, "mkdir", environments[pass.position]) = {}

\* C27 witness: a pass over production then development has returned; the
\* write of production failed and was logged before development began.
C27_Witness ==
    \E p \in 1..Len(passes) :
        /\ environments = <<"production", "development">>
        /\ passes[p].awaiting = "none"
        /\ Len(passes[p].operations) = 4
        /\ passes[p].operations[2].environment = "production"
        /\ passes[p].operations[2].op = "writeFile"
        /\ ~passes[p].operations[2].ok
        /\ passes[p].operations[3].environment = "development"
        /\ passes[p].operations[3].op = "mkdir"
        /\ passes[p].logs[1].level = "error"
        /\ passes[p].logs[2].level = "info"

\* C28: every artifact write is preceded, in the same pass, by an
\* ensure-directory-exists step on content-security-policy/configurations,
\* which does not fail because the directory exists already; when that step
\* fails for an environment, no write is attempted for that environment and
\* the failure is logged.
C28_DirectoryEnsuredBeforeWrite ==
    \A p \in 1..Len(passes) :
        LET pass == passes[p] IN
        /\ \A k \in 1..Len(pass.operations) :
              /\ pass.operations[k].op = "writeFile" =>
                    /\ k > 1
                    /\ pass.operations[k - 1]
                          = [environment |-> pass.operations[k].environment,
                             op |-> "mkdir",
                             path |-> "content-security-policy/configurations",
                             ok |-> TRUE]
              /\ (pass.operations[k].op = "mkdir" /\ ~pass.operations[k].ok) =>
                    /\ OperationsOf(pass, "writeFile", pass.operations[k].environment) = {}
                    /\ \E l \in 1..Len(pass.logs) :
                          /\ pass.logs[l].level = "error"
                          /\ pass.logs[l].environment = pass.operations[k].environment
        /\ \A l \in 1..Len(pass.logs) : pass.logs[l].error # "EEXIST"
        /\ pass.awaiting = "writeFile" =>
              "content-security-policy/configurations" \in directories

\* C28 witness: the startup pass has created the directory and written its
\* artifacts, and the directory step of a later pass has succeeded on the
\* existing directory.
C28_Witness ==
    /\ Len(environments) = 2
    /\ Len(passes) = 2
    /\ passes[1].awaiting = "none"
    /\ Len(passes[1].operations) = 4
    /\ \A k \in 1..4 : passes[1].operations[k].ok
    /\ passes[2].awaiting = "writeFile"
    /\ Len(passes[2].operations) = 1
    /\ passes[2].operations[1].op = "mkdir"
    /\ passes[2].operations[1].ok

\* In this step a writeFile call on path has settled in some pass, with the
\* outcome ok.
WriteSettled(path, ok) ==
    \E p \in 1..Len(passes) :
        /\ Len(passes'[p].operations) = Len(passes[p].operations) + 1
        /\ passes'[p].operations[Len(passes'[p].operations)]
              \in {[environment |-> e, op |-> "writeFile", path |-> path, ok |-> ok] :
                      e \in {"production", "development"}}

\* In this step the file at path was created or its content changed.
FileTouched(path) ==
    /\ path \in DOMAIN files'
    /\ path \in DOMAIN files => files'[path] # files[path]

\* C29: the passes started by overlapping notifications run concurrently,
\* and under every interleaving of their steps an environment's file holds
\* nothing but the content a single pass writes for that environment, or
\* nothing after a failed write: a write that succeeds leaves exactly that
\* content, and only a write to the file changes it, so that the artifact
\* whose last write succeeded holds that content once every pass has finished.
C29_OverlappingPassesWriteTheSameContent ==
    /\ [](\A i \in 1..Len(environments) :
            LET path == ArtifactPath(environments[i]) IN
            path \in DOMAIN files
                => files[path] \in {ArtifactContent(environments[i]), ""})
    /\ [][\A i \in 1..Len(environments) :
            LET path == ArtifactPath(environments[i]) IN
            /\ WriteSettled(path, TRUE)
                  => /\ path \in DOMAIN files'
                     /\ files'[path] = ArtifactContent(environments[i])
            /\ FileTouched(path)
                  => WriteSettled(path, TRUE) \/ WriteSettled(path, FALSE)]_vars

\* C29 witness: two passes started by two notifications overlap, the later
\* one has finished while the earlier one, which started first, still waits
\* for its first write; the two environments' contents differ and each file
\* holds its own.
C29_Witness ==
    /\ environments = <<"production", "development">>
    /\ Len(passes) = 3
    /\ passes[2].awaiting = "writeFile"
    /\ passes[2].position = 1
    /\ passes[3].awaiting = "none"
    /\ Len(passes[3].operations) = 4
    /\ \A k \in 1..4 : passes[3].operations[k].ok
    /\ ArtifactContent("production") # ArtifactContent("development")
    /\ files[ArtifactPath("production")] = ArtifactContent("production")
    /\ files[ArtifactPath("development")] = ArtifactContent("development")

\* C30: at configureServer, html.cspNonce becomes the generated nonce
\* whenever the html section exists, with or without a nonce configuration
\* and whatever html.cspNonce was before (and no html section is created);
\* one error is logged exactly when one of html.cspNonce and the nonce
\* configuration is set and the other is not; the header middleware is
\* installed in every case, and html.cspNonce stays the nonce afterwards.
C30_HtmlNonceOverwrittenAndMismatchLogged ==
    /\ [][(~installed /\ installed') =>
            /\ IsGiven(html') = IsGiven(html)
            /\ IsGiven(html) => html'.cspNonce = nonce
            /\ errors' = errors
                  + (IF (HtmlNonce # Undefined) # IsGiven(noncesConfiguration)
                     THEN 1 ELSE 0)]_vars
    /\ []((~installed) => (errors = 0 /\ responses = <<>>))
    /\ []((installed /\ IsGiven(html)) => html.cspNonce = nonce)
    /\ [][installed => (installed' /\ errors' = errors)]_vars

\* C30 witness: html.cspNonce was set and no nonce configuration was given:
\* the error is logged, html.cspNonce holds the generated nonce, and the
\* middleware installed all the same has answered a request.
C30_Witness ==
    /\ installed
    /\ ~IsGiven(noncesConfiguration)
    /\ errors = 1
    /\ IsGiven(html)
    /\ html.cspNonce = nonce
    /\ Len(responses) = 1

====
